---- MODULE Spec2Model ----
(***************************************************************************)
(* A model of ocetrac's Tracker (src/ocetrac/tracker.py): the constructor, *)
(* the track() pipeline and the periodic label unifier _wrap.              *)
(*                                                                         *)
(* Arrays are functions over cells <<t, y, x>> (1-based); a frame is the   *)
(* set of cells with one t.  The external primitives are modelled by what  *)
(* they compute: skimage.measure.label numbers the components in raster    *)
(* order of their first cell, scipy's binary closing/opening are dilation  *)
(* and erosion with a zero border, np.pad(mode='wrap') is periodic         *)
(* indexing, np.searchsorted counts the smaller values, np.percentile      *)
(* interpolates linearly.                                                  *)
(***************************************************************************)
EXTENDS Integers, Sequences, FiniteSets, TLC

VARIABLES
    pc,                       \* position in the call being modelled
    error,                    \* the ValueError raised, "" when none
    da_dims,                  \* dims of the `da` argument of __init__
    self_da_dims,             \* dims of self.da
    shape,                    \* <<nt, ny, nx>> of the field
    da,                       \* self.da: the field values
    mask,                     \* self.mask over <<y, x>>
    radius,                   \* self.radius
    min_size_quartile,        \* self.min_size_quartile as <<num, den>>
    positive,                 \* self.positive
    xcoord,                   \* self.da[self.xdim]: the x coordinate
    binary_images_with_mask,  \* track(): presence after morphology and mask
    labels_frame,             \* _filter_area: `labels` after line 199
    labels_unified,           \* _filter_area: `labels_wrapped` (line 200)
    N_initial,                \* _filter_area: N_initial
    area,                     \* _filter_area: label -> pixel count
    min_area,                 \* _filter_area: min_area * den of the quantile
    binary_labels,            \* _filter_area: filtered presence
    labels,                   \* track(): 3-D labels (line 83); _wrap's input
    labels_wrapped,           \* track(): labels_wrapped; _wrap's output
    N_final,                  \* track(): N_final; _wrap's N
    new_labels,               \* track(): the returned array
    attrs                     \* track(): the metadata of the returned array

vars == <<pc, error, da_dims, self_da_dims, shape, da, mask, radius,
          min_size_quartile, positive, xcoord, binary_images_with_mask,
          labels_frame, labels_unified, N_initial, area, min_area,
          binary_labels, labels, labels_wrapped, N_final, new_labels, attrs>>

----------------------------------------------------------------------------
(* Bounds of the checked instances.                                        *)

MaxT == 3
MaxY == 2
MaxX == 4
MaxCells == 8
MaxWrapY == 3
MaxWrapX == 3
MaxWrapCells == 9
SeamWidth == 10
MaxRun == 2

(* The marker of a missing value (np.nan) in a label array.                *)
NaN == -1

(* The span of a full circle of longitude, in degrees.                     *)
FullCircle == 360

None == <<>>

----------------------------------------------------------------------------
(* Array helpers.                                                          *)

Cells(sh) == (1..sh[1]) \X (1..sh[2]) \X (1..sh[3])

FrameCells(sh, t) == {t} \X (1..sh[2]) \X (1..sh[3])

RasterIndex(sh, c) == ((c[1] - 1) * sh[2] + (c[2] - 1)) * sh[3] + c[3]

SetMax(S) == CHOOSE m \in S : \A n \in S : n <= m

SetMin(S) == CHOOSE m \in S : \A n \in S : m <= n

Abs(n) == IF n < 0 THEN 0 - n ELSE n

RECURSIVE SetSum(_, _)
SetSum(f, S) ==
    IF S = {} THEN 0
    ELSE LET k == CHOOSE k \in S : TRUE IN f[k] + SetSum(f, S \ {k})

----------------------------------------------------------------------------
(* Binarizer, structuring element and periodic morphological filter        *)
(* (_morphological_operations) and the mask (_apply_mask).                 *)

bitmap_binary(field, pos) ==
    [c \in DOMAIN field |->
        IF (pos /\ field[c] > 0) \/ (~pos /\ field[c] < 0) THEN 1 ELSE 0]

se(r) == {o \in (0 - r .. r) \X (0 - r .. r) : o[1] * o[1] + o[2] * o[2] < r * r}

(* np.pad(frame, ((d, d), (d, d)), mode='wrap') of frame t of volume b.     *)
pad_wrap(b, sh, t, d) ==
    [p \in ((1 - d) .. (sh[2] + d)) \X ((1 - d) .. (sh[3] + d)) |->
        b[<<t, ((p[1] - 1) % sh[2]) + 1, ((p[2] - 1) % sh[3]) + 1>>] = 1]

(* scipy.ndimage.binary_dilation / binary_erosion, border_value = 0.        *)
binary_dilation(img, S) ==
    [p \in DOMAIN img |->
        \E o \in S : LET q == <<p[1] - o[1], p[2] - o[2]>>
                     IN  q \in DOMAIN img /\ img[q]]

binary_erosion(img, S) ==
    [p \in DOMAIN img |->
        \A o \in S : LET q == <<p[1] + o[1], p[2] + o[2]>>
                     IN  q \in DOMAIN img /\ img[q]]

binary_closing(img, S) == binary_erosion(binary_dilation(img, S), S)

binary_opening(img, S) == binary_dilation(binary_erosion(img, S), S)

(* binary_open_close on frame t: pad, close, open, crop.                    *)
binary_open_close(b, sh, t, r) ==
    LET diameter == r * 2
        s1 == binary_closing(pad_wrap(b, sh, t, diameter), se(r))
    IN  binary_opening(s1, se(r))

morphological_operations(field, sh, r, pos) ==
    LET b == bitmap_binary(field, pos)
        mo == [t \in 1..sh[1] |-> binary_open_close(b, sh, t, r)]
    IN  [c \in DOMAIN field |-> IF mo[c[1]][<<c[2], c[3]>>] THEN 1 ELSE 0]

apply_mask(binary_images, m) ==
    [c \in DOMAIN binary_images |->
        IF m[<<c[2], c[3]>>] = 1 THEN binary_images[c] ELSE 0]

----------------------------------------------------------------------------
(* skimage.measure.label (_label_either on an in-memory array): the        *)
(* components of the cells of S under `connectivity` orthogonal hops,      *)
(* numbered 1, 2, ... in raster order of their first cell.                 *)

Adjacent(a, b, connectivity) ==
    /\ a # b
    /\ \A i \in 1..3 : Abs(a[i] - b[i]) <= 1
    /\ Cardinality({i \in 1..3 : a[i] # b[i]}) <= connectivity

RECURSIVE Component(_, _, _)
Component(seed, S, connectivity) ==
    LET grown == seed \cup {c \in S : \E s \in seed : Adjacent(s, c, connectivity)}
    IN  IF grown = seed THEN seed ELSE Component(grown, S, connectivity)

FirstCell(S, sh) ==
    CHOOSE c \in S : \A e \in S : RasterIndex(sh, c) <= RasterIndex(sh, e)

RECURSIVE LabelFrom(_, _, _, _, _)
LabelFrom(S, sh, connectivity, next, acc) ==
    IF S = {} THEN acc
    ELSE LET comp == Component({FirstCell(S, sh)}, S, connectivity)
         IN  LabelFrom(S \ comp, sh, connectivity, next + 1,
                       [c \in DOMAIN acc |-> IF c \in comp THEN next ELSE acc[c]])

(* label(data, background=0, connectivity) restricted to the cells D.       *)
label_np(data, D, sh, connectivity) ==
    LabelFrom({c \in D : data[c] # 0}, sh, connectivity, 1, [c \in D |-> 0])

(* _label_either(binary_images, background=0) applied frame by frame by    *)
(* xr.apply_ufunc: connectivity None is the full connectivity of a frame.   *)
get_labels(binary_images, sh) ==
    LET per == [t \in 1..sh[1] |-> label_np(binary_images, FrameCells(sh, t), sh, 2)]
    IN  [c \in DOMAIN binary_images |-> per[c[1]][c]]

----------------------------------------------------------------------------
(* The frame offsets of _filter_area (lines 192-199).                      *)

(* labels.where(labels > 0, other=np.nan)                                   *)
where_positive(lab) == [c \in DOMAIN lab |-> IF lab[c] > 0 THEN lab[c] ELSE NaN]

(* labels.max(dim={xdim, ydim}): the maximum of a frame, skipping NaN.      *)
frame_max(lab, sh) ==
    [t \in 1..sh[1] |->
        LET vals == {lab[c] : c \in FrameCells(sh, t)} \ {NaN}
        IN  IF vals = {} THEN NaN ELSE SetMax(vals)]

(* .cumsum(dim=timedim): NaN counts as 0.                                   *)
RECURSIVE cumsum(_, _)
cumsum(f, t) ==
    IF t = 0 THEN 0
    ELSE (IF f[t] = NaN THEN 0 ELSE f[t]) + cumsum(f, t - 1)

(* A shift without the running total: each frame is offset by the maximum  *)
(* of the frame before it only.                                            *)
shifted_frame_max(lab, sh) ==
    LET fm == frame_max(lab, sh)
    IN  [t \in 1..sh[1] |-> IF t = 1 \/ fm[t - 1] = NaN THEN 0 ELSE fm[t - 1]]

(* cumulative_max.shift({timedim: 1}, fill_value=0)                         *)
shifted_cumulative_max(lab, sh) ==
    LET fm == frame_max(lab, sh)
    IN  [t \in 1..sh[1] |-> IF t = 1 THEN 0 ELSE cumsum(fm, t - 1)]

(* labels + shifted, then labels.where(labels > 0, other=0)                 *)
offset_labels(frame_labels, sh) ==
    LET lab == where_positive(frame_labels)
        off == shifted_cumulative_max(lab, sh)
        sum == [c \in DOMAIN lab |-> IF lab[c] = NaN THEN NaN ELSE lab[c] + off[c[1]]]
    IN  [c \in DOMAIN sum |-> IF sum[c] # NaN /\ sum[c] > 0 THEN sum[c] ELSE 0]

----------------------------------------------------------------------------
(* The periodic label unifier _wrap.                                       *)

(* The loop of wrap_x over unique_first, smallest value first: `todo` are  *)
(* the values still to visit, `wrapped` is labels_wrapped so far.          *)
RECURSIVE wrap_loop(_, _, _, _, _)
wrap_loop(lab, sh, t, todo, wrapped) ==
    IF todo = {} THEN wrapped
    ELSE LET value == SetMin(todo)
             first == {y \in 1..sh[2] : lab[<<t, y, 1>>] = value}
             last == {lab[<<t, y, sh[3]>>] : y \in first}
             bad_labels == {v \in last : v > 0}
             replace == {c \in FrameCells(sh, t) : lab[c] \in bad_labels}
             size == sh[2] * sh[3]
         IN  wrap_loop(lab, sh, t, todo \ {value},
                       IF size = 0 THEN wrapped
                       ELSE [c \in DOMAIN wrapped |->
                                IF c \in replace THEN value ELSE wrapped[c]])

(* wrap_x on frame t of the volume.                                         *)
wrap_x(lab, sh, t) ==
    LET first_column == {lab[<<t, y, 1>>] : y \in 1..sh[2]}
        unique_first == {v \in first_column : v > 0}
    IN  wrap_loop(lab, sh, t, unique_first, [c \in FrameCells(sh, t) |-> lab[c]])

(* xr.apply_ufunc(wrap_x, ..., vectorize=True): every frame on its own.     *)
wrap_frames(lab, sh) ==
    LET per == [t \in 1..sh[1] |-> wrap_x(lab, sh, t)]
    IN  [c \in DOMAIN lab |-> per[c[1]][c]]

(* No dense remap: the merged values are returned as they are.             *)
inverse_unique_skipped(lab) == lab

(* np.searchsorted(unique_values, v): how many unique values are below v.   *)
searchsorted(unique_values, v) == Cardinality({u \in unique_values : u < v})

inverse_unique(lab) ==
    LET unique_values == {lab[c] : c \in DOMAIN lab}
    IN  [c \in DOMAIN lab |-> searchsorted(unique_values, lab[c])]

(* _wrap: the unified volume and N.                                         *)
wrap(lab, sh) ==
    LET labels_wrapped_unique == inverse_unique(wrap_frames(lab, sh))
    IN  [vol |-> labels_wrapped_unique,
         N |-> SetMax({labels_wrapped_unique[c] : c \in DOMAIN lab})]

----------------------------------------------------------------------------
(* The area filter of _filter_area (lines 203-222).                        *)

(* Region properties that take the background for a region.                *)
labelprops_with_background(lab) == {v \in {lab[c] : c \in DOMAIN lab} : v >= 0}

(* regionprops_table(..., properties=['label', 'area'])                     *)
labelprops(lab) == {v \in {lab[c] : c \in DOMAIN lab} : v > 0}

region_area(lab) ==
    [l \in labelprops(lab) |-> Cardinality({c \in DOMAIN lab : lab[c] = l})]

RECURSIVE SortedAreas(_, _)
SortedAreas(a, L) ==
    IF L = {} THEN <<>>
    ELSE LET l == CHOOSE l \in L : \A m \in L : a[l] <= a[m]
         IN  <<a[l]>> \o SortedAreas(a, L \ {l})

(* np.percentile(area, q * 100) for q = q[1] / q[2], times q[2]: linear    *)
(* interpolation between the two sorted areas around index q * (n - 1).    *)
percentile(a, q) ==
    LET sorted == SortedAreas(a, DOMAIN a)
        n == Len(sorted)
        virtual == q[1] * (n - 1)
        previous == virtual \div q[2]
        gamma == virtual % q[2]
        next == IF previous + 1 > n - 1 THEN n - 1 ELSE previous + 1
    IN  sorted[previous + 1] * q[2] + (sorted[next + 1] - sorted[previous + 1]) * gamma

(* A strict threshold test.                                                *)
keep_labels_strict(a, m, q) == {l \in DOMAIN a : a[l] * q[2] > m}

(* labelprops.where(area >= min_area, drop=True); m is min_area * q[2].     *)
keep_labels(a, m, q) == {l \in DOMAIN a : a[l] * q[2] >= m}

(* out_labels, then out_labels.where(out_labels == 0, other=1)              *)
filtered_presence(lab, keep) ==
    LET out_labels == [c \in DOMAIN lab |-> IF lab[c] \in keep THEN lab[c] ELSE 0]
    IN  [c \in DOMAIN lab |-> IF out_labels[c] = 0 THEN 0 ELSE 1]

----------------------------------------------------------------------------
(* The end of track() (lines 87-120).                                      *)

(* The test without the allowance of one grid step.                        *)
spans_full_circle_no_step(x) == x[Len(x)] - x[1] >= FullCircle

(* self.da[xdim][-1] - self.da[xdim][0] >= 360 - grid_res                   *)
spans_full_circle(x) ==
    LET grid_res == Abs(x[2] - x[1])
    IN  x[Len(x)] - x[1] >= FullCircle - grid_res

(* new_labels.where(new_labels != 0, other=np.nan)                          *)
mask_zero(lab) == [c \in DOMAIN lab |-> IF lab[c] # 0 THEN lab[c] ELSE NaN]

(* area.where(area <= min_area) and area.where(area > min_area), summed.    *)
reject_area(a, m, q) == {l \in DOMAIN a : a[l] * q[2] <= m}

accept_area(a, m, q) == {l \in DOMAIN a : a[l] * q[2] > m}

metadata(a, m, q, n0, n1, r) ==
    LET sum_tot_area == SetSum(a, DOMAIN a)
    IN  [initial_objects |-> n0,
         final_objects |-> n1,
         radius |-> r,
         size_quantile_threshold |-> q,
         min_area |-> m,
         percent_area_reject |-> <<SetSum(a, reject_area(a, m, q)), sum_tot_area>>,
         percent_area_accept |-> <<SetSum(a, accept_area(a, m, q)), sum_tot_area>>]

----------------------------------------------------------------------------
(* The inputs of the checked instances.                                    *)

timedim == "time"
ydim == "lat"
xdim == "lon"

Shapes ==
    {sh \in (1..MaxT) \X (1..MaxY) \X (2..MaxX) : sh[1] * sh[2] * sh[3] <= MaxCells}

(* One row of SeamWidth columns, for blobs that lie across the seam.       *)
SeamShape == <<1, 1, SeamWidth>>

FieldVals == {0 - 1, 1}

(* Every field of a small grid; on the wide row, a run of up to MaxRun     *)
(* columns at each end.                                                    *)
Fields(sh) ==
    IF sh \in Shapes THEN [Cells(sh) -> FieldVals]
    ELSE {[c \in Cells(sh) |-> IF c[3] <= a \/ c[3] > sh[3] - b THEN 1 ELSE 0 - 1] :
             a \in 0..MaxRun, b \in 0..MaxRun}

AllValid(sh) == [p \in (1..sh[2]) \X (1..sh[3]) |-> 1]

(* Masks that exclude the first column, or every cell.                     *)
FirstColumnMasked(sh) == [p \in (1..sh[2]) \X (1..sh[3]) |-> IF p[2] = 1 THEN 0 ELSE 1]

NoneValid(sh) == [p \in (1..sh[2]) \X (1..sh[3]) |-> 0]

Radii == {1, 2}

Quantiles == {<<0, 1>>, <<1, 2>>, <<1, 1>>}

(* Regular x coordinates: a regional grid of unit step, and a global grid  *)
(* whose nx steps cover the full circle.                                   *)
XCoords(nx) ==
    {[i \in 1..nx |-> (i - 1) * step] : step \in {1, (FullCircle + nx - 1) \div nx}}

(* The settings of the stages before the labeling: the plain ones (values  *)
(* above zero, a one-cell structuring element, nothing masked) with every  *)
(* quantile, and each of them changed on its own at the median.            *)
Settings(sh) ==
    {[positive |-> TRUE, radius |-> 1, mask |-> AllValid(sh), q |-> q] : q \in Quantiles}
    \cup {[positive |-> FALSE, radius |-> 1, mask |-> AllValid(sh), q |-> <<1, 2>>],
          [positive |-> TRUE, radius |-> 2, mask |-> AllValid(sh), q |-> <<1, 2>>],
          [positive |-> TRUE, radius |-> 1, mask |-> FirstColumnMasked(sh), q |-> <<1, 2>>],
          [positive |-> TRUE, radius |-> 1, mask |-> NoneValid(sh), q |-> <<1, 2>>]}

----------------------------------------------------------------------------
(* track(), on a Tracker whose field came in the declared axis order.      *)

Init ==
    /\ pc = "constructed"
    /\ error = ""
    /\ da_dims = <<timedim, ydim, xdim>>
    /\ self_da_dims = da_dims
    /\ shape \in Shapes \cup {SeamShape}
    /\ da \in Fields(shape)
    /\ \E s \in Settings(shape) :
          /\ mask = s.mask
          /\ radius = s.radius
          /\ min_size_quartile = s.q
          /\ positive = s.positive
    /\ xcoord \in XCoords(shape[3])
    /\ binary_images_with_mask = None
    /\ labels_frame = None
    /\ labels_unified = None
    /\ N_initial = 0
    /\ area = None
    /\ min_area = 0
    /\ binary_labels = None
    /\ labels = None
    /\ labels_wrapped = None
    /\ N_final = 0
    /\ new_labels = None
    /\ attrs = None

inputs == <<da_dims, self_da_dims, shape, da, mask, radius, min_size_quartile,
            positive, xcoord>>

(* Line 70-71: an all-zero mask is refused.                                 *)
TrackMaskError ==
    /\ pc = "constructed"
    /\ \A p \in DOMAIN mask : mask[p] = 0
    /\ pc' = "failed"
    /\ error' = "Found only zeros in mask input"
    /\ UNCHANGED <<inputs, binary_images_with_mask, labels_frame, labels_unified,
                   N_initial, area, min_area, binary_labels, labels,
                   labels_wrapped, N_final, new_labels, attrs>>

(* Lines 74-77: binarize, filter, mask.                                     *)
TrackMorphMask ==
    /\ pc = "constructed"
    /\ ~(\A p \in DOMAIN mask : mask[p] = 0)
    /\ binary_images_with_mask' =
          apply_mask(morphological_operations(da, shape, radius, positive), mask)
    /\ pc' = "masked"
    /\ UNCHANGED <<error, inputs, labels_frame, labels_unified, N_initial, area,
                   min_area, binary_labels, labels, labels_wrapped, N_final,
                   new_labels, attrs>>

(* Line 80: _filter_area, which raises when no label has an area.           *)
TrackFilterArea ==
    /\ pc = "masked"
    /\ labels_frame' = offset_labels(get_labels(binary_images_with_mask, shape), shape)
    /\ LET w == wrap(labels_frame', shape)
       IN  /\ labels_unified' = w.vol
           /\ N_initial' = w.N
    /\ \/ /\ labelprops(labels_unified') = {}
          /\ pc' = "failed"
          /\ error' = "No objects were detected"
          /\ UNCHANGED <<area, min_area, binary_labels>>
       \/ /\ labelprops(labels_unified') # {}
          /\ area' = region_area(labels_unified')
          /\ min_area' = percentile(area', min_size_quartile)
          /\ binary_labels' =
                filtered_presence(labels_unified',
                                  keep_labels(area', min_area', min_size_quartile))
          /\ pc' = "filtered"
          /\ UNCHANGED error
    /\ UNCHANGED <<inputs, binary_images_with_mask, labels, labels_wrapped,
                   N_final, new_labels, attrs>>

(* Line 83: the 3-D labeling.                                               *)
TrackLabel ==
    /\ pc = "filtered"
    /\ labels' = label_np(binary_labels, Cells(shape), shape, 3)
    /\ pc' = "labeled"
    /\ UNCHANGED <<error, inputs, binary_images_with_mask, labels_frame,
                   labels_unified, N_initial, area, min_area, binary_labels,
                   labels_wrapped, N_final, new_labels, attrs>>

(* Lines 87-92: the final unification, on a grid that spans the circle.     *)
TrackWrap ==
    /\ pc = "labeled"
    /\ \/ /\ spans_full_circle(xcoord)
          /\ LET w == wrap(labels, shape)
             IN  /\ labels_wrapped' = w.vol
                 /\ N_final' = w.N
       \/ /\ ~spans_full_circle(xcoord)
          /\ labels_wrapped' = labels
          /\ N_final' = SetMax({labels[c] : c \in DOMAIN labels})
    /\ pc' = "wrapped"
    /\ UNCHANGED <<error, inputs, binary_images_with_mask, labels_frame,
                   labels_unified, N_initial, area, min_area, binary_labels,
                   labels, new_labels, attrs>>

(* Lines 96-125: the returned array and its metadata.                       *)
TrackReturn ==
    /\ pc = "wrapped"
    /\ new_labels' = mask_zero(labels_wrapped)
    /\ attrs' = metadata(area, min_area, min_size_quartile, N_initial, N_final, radius)
    /\ pc' = "done"
    /\ UNCHANGED <<error, inputs, binary_images_with_mask, labels_frame,
                   labels_unified, N_initial, area, min_area, binary_labels,
                   labels, labels_wrapped, N_final>>

Next ==
    \/ TrackMaskError
    \/ TrackMorphMask
    \/ TrackFilterArea
    \/ TrackLabel
    \/ TrackWrap
    \/ TrackReturn

Spec == Init /\ [][Next]_vars

----------------------------------------------------------------------------
(* _wrap on its own, called on the volumes track() hands it: the offset    *)
(* frame labels of a presence volume (line 200), or the 3-D labels of a    *)
(* filtered presence volume (line 89), which always holds a cell of each   *)
(* kind.                                                                   *)

WrapShapes ==
    {sh \in (1..MaxT) \X (1..MaxWrapY) \X (2..MaxWrapX) :
        sh[1] * sh[2] * sh[3] <= MaxWrapCells}

InitWrap ==
    /\ pc = "wrap_call"
    /\ error = ""
    /\ da_dims = <<timedim, ydim, xdim>>
    /\ self_da_dims = da_dims
    /\ shape \in WrapShapes
    /\ da = None
    /\ mask = AllValid(shape)
    /\ radius = 1
    /\ min_size_quartile = <<0, 1>>
    /\ positive = TRUE
    /\ xcoord \in {x \in XCoords(shape[3]) : spans_full_circle(x)}
    /\ \E b \in [Cells(shape) -> {0, 1}] :
          \/ /\ binary_images_with_mask = b
             /\ binary_labels = None
             /\ labels = offset_labels(get_labels(b, shape), shape)
          \/ /\ {b[c] : c \in DOMAIN b} = {0, 1}
             /\ binary_images_with_mask = None
             /\ binary_labels = b
             /\ labels = label_np(b, Cells(shape), shape, 3)
    /\ labels_frame = None
    /\ labels_unified = None
    /\ N_initial = 0
    /\ area = None
    /\ min_area = 0
    /\ labels_wrapped = None
    /\ N_final = 0
    /\ new_labels = None
    /\ attrs = None

WrapCall ==
    /\ pc = "wrap_call"
    /\ LET w == wrap(labels, shape)
       IN  /\ labels_wrapped' = w.vol
           /\ N_final' = w.N
    /\ pc' = "wrap_done"
    /\ UNCHANGED <<error, inputs, binary_images_with_mask, labels_frame,
                   labels_unified, N_initial, area, min_area, binary_labels,
                   labels, new_labels, attrs>>

NextWrap == WrapCall

SpecWrap == InitWrap /\ [][NextWrap]_vars

----------------------------------------------------------------------------
(* Tracker.__init__ (lines 14-31).  da_dims is the local name `da`.        *)

DimNames == {timedim, ydim, xdim, "depth"}

(* The fields offered: two to four distinct axes, in any order.            *)
DimOrders ==
    {d \in UNION {[1..n -> DimNames] : n \in 2..4} :
        \A i, j \in DOMAIN d : i # j => d[i] # d[j]}

Range(f) == {f[i] : i \in DOMAIN f}

(* da.transpose(timedim, ydim, xdim) succeeds on a permutation of the dims. *)
can_transpose(d, names) == Range(d) = Range(names) /\ Len(d) = Len(names)

InitCtor ==
    /\ pc = "new"
    /\ error = ""
    /\ da_dims \in DimOrders
    /\ self_da_dims = None
    /\ shape = None
    /\ da = None
    /\ mask = None
    /\ radius \in Radii
    /\ min_size_quartile \in Quantiles
    /\ positive \in BOOLEAN
    /\ xcoord = None
    /\ binary_images_with_mask = None
    /\ labels_frame = None
    /\ labels_unified = None
    /\ N_initial = 0
    /\ area = None
    /\ min_area = 0
    /\ binary_labels = None
    /\ labels = None
    /\ labels_wrapped = None
    /\ N_final = 0
    /\ new_labels = None
    /\ attrs = None

Construct ==
    /\ pc = "new"
    /\ self_da_dims' = da_dims
    /\ \/ /\ <<timedim, ydim, xdim>> = da_dims
          /\ pc' = "constructed"
          /\ UNCHANGED <<da_dims, error>>
       \/ /\ <<timedim, ydim, xdim>> # da_dims
          /\ can_transpose(da_dims, <<timedim, ydim, xdim>>)
          /\ da_dims' = <<timedim, ydim, xdim>>
          /\ pc' = "constructed"
          /\ UNCHANGED error
       \/ /\ <<timedim, ydim, xdim>> # da_dims
          /\ ~can_transpose(da_dims, <<timedim, ydim, xdim>>)
          /\ pc' = "failed"
          /\ error' = "Ocetrac currently only supports 3D DataArrays"
          /\ UNCHANGED da_dims
    /\ UNCHANGED <<shape, da, mask, radius, min_size_quartile, positive, xcoord,
                   binary_images_with_mask, labels_frame, labels_unified,
                   N_initial, area, min_area, binary_labels, labels,
                   labels_wrapped, N_final, new_labels, attrs>>

NextCtor == Construct

SpecCtor == InitCtor /\ [][NextCtor]_vars

----------------------------------------------------------------------------
(* Vocabulary of the properties.                                           *)

Values(f) == {f[c] : c \in DOMAIN f}

Present(b) == {c \in DOMAIN b : b[c] = 1}

(* _filter_area has just returned, or raised.                              *)
FilterAreaRan ==
    \/ pc = "filtered"
    \/ pc = "failed" /\ error = "No objects were detected"

(* No positive value of lab occurs in two frames.                          *)
FrameUnique(lab) ==
    \A c1, c2 \in DOMAIN lab :
        lab[c1] > 0 /\ lab[c1] = lab[c2] => c1[1] = c2[1]

(* Cells of one frame with the same positive value lie in one component    *)
(* of the presence b (neighbours by face, edge or corner).                 *)
ComponentsDistinct(lab, b, sh) ==
    \A c1 \in DOMAIN lab :
        lab[c1] > 0 =>
            LET comp == Component({c1}, Present(b) \cap FrameCells(sh, c1[1]), 2)
            IN  \A c2 \in FrameCells(sh, c1[1]) : lab[c2] = lab[c1] => c2 \in comp

(* Neighbours in a frame whose last column is next to its first.           *)
SeamAdjacent(a, b, sh) ==
    /\ a # b
    /\ a[1] = b[1]
    /\ Abs(a[2] - b[2]) <= 1
    /\ (a[3] - b[3]) % sh[3] \in {0, 1, sh[3] - 1}

RECURSIVE SeamComponent(_, _, _)
SeamComponent(seed, S, sh) ==
    LET grown == seed \cup {c \in S : \E e \in seed : SeamAdjacent(e, c, sh)}
    IN  IF grown = seed THEN seed ELSE SeamComponent(grown, S, sh)

SeamComponentsDistinct(lab, b, sh) ==
    \A c1 \in DOMAIN lab :
        lab[c1] > 0 =>
            LET comp == SeamComponent({c1}, Present(b) \cap FrameCells(sh, c1[1]), sh)
            IN  \A c2 \in FrameCells(sh, c1[1]) : lab[c2] = lab[c1] => c2 \in comp

(* The blob of the wrap scenario: the two columns at each end of the wide  *)
(* row, and nothing else, survive the area filter.                         *)
SeamBlob ==
    /\ shape[3] = SeamWidth
    /\ \A c \in DOMAIN binary_labels :
          binary_labels[c] = 1 <=> c[3] \in {1, 2, SeamWidth - 1, SeamWidth}

Ids(lab) == Values(lab) \ {NaN}

----------------------------------------------------------------------------
(* C1: after _wrap, in every frame and row whose first-column and          *)
(* last-column cells both carried a positive label, the two cells carry    *)
(* the same ID.                                                            *)
C1_SeamRowsShareId ==
    pc = "wrap_done" =>
        \A t \in 1..shape[1], y \in 1..shape[2] :
            labels[<<t, y, 1>>] > 0 /\ labels[<<t, y, shape[3]>>] > 0
                => labels_wrapped[<<t, y, 1>>] = labels_wrapped[<<t, y, shape[3]>>]

(* C2: in the array track() returns, surviving cells of adjacent frames    *)
(* that touch (by face, edge or corner) carry one ID, and surviving cells  *)
(* on either side of an empty frame carry different IDs.                   *)
C2_TemporalLinkage ==
    pc = "done" =>
        LET kept == Present(binary_labels)
        IN  /\ \A c1, c2 \in kept :
                  c2[1] = c1[1] + 1 /\ Adjacent(c1, c2, 3)
                      => new_labels[c1] = new_labels[c2]
            /\ \A c1, c2 \in kept :
                  c2[1] = c1[1] + 2 /\ kept \cap FrameCells(shape, c1[1] + 1) = {}
                      => new_labels[c1] # new_labels[c2]

(* C3: the values of the returned array, the missing ones aside, are       *)
(* exactly 1 .. N_final, the 'final objects tracked' attribute.            *)
C3_LabelDensity ==
    pc = "done" => Ids(new_labels) = 1..attrs.final_objects

C3_Witness ==
    /\ pc = "done"
    /\ spans_full_circle(xcoord)
    /\ attrs.final_objects >= 2
    /\ \E c \in DOMAIN labels : labels[c] > 0 /\ labels_wrapped[c] # labels[c]

(* C4: _filter_area keeps (as 1) every cell of a label whose area is at    *)
(* least min_area, clears every cell of a label whose area is below it,    *)
(* and leaves the 0 cells 0; the area of a label is its number of cells    *)
(* in the whole volume, and min_area lies at the quantile's rank among     *)
(* the areas.                                                              *)
C4_AreaFilter ==
    pc = "filtered" =>
        LET q == min_size_quartile
            L == {v \in Values(labels_unified) : v > 0}
            count == [l \in L |-> Cardinality({c \in DOMAIN labels_unified : labels_unified[c] = l})]
            below == {l \in L : count[l] * q[2] < min_area}
            above == {l \in L : count[l] * q[2] > min_area}
            n == Cardinality(L)
        IN  /\ \A c \in DOMAIN labels_unified :
                  /\ labels_unified[c] = 0 => binary_labels[c] = 0
                  /\ labels_unified[c] \in L /\ count[labels_unified[c]] * q[2] >= min_area
                        => binary_labels[c] = 1
                  /\ labels_unified[c] \in L /\ count[labels_unified[c]] * q[2] < min_area
                        => binary_labels[c] = 0
            /\ Cardinality(below) * q[2] < q[1] * (n - 1) + q[2]
            /\ Cardinality(above) * q[2] < (q[2] - q[1]) * (n - 1) + q[2]
            /\ \E l1, l2 \in L : count[l1] * q[2] <= min_area /\ min_area <= count[l2] * q[2]

C4_Witness ==
    /\ pc = "filtered"
    /\ \E c1, c2 \in DOMAIN labels_unified :
          /\ labels_unified[c1] > 0 /\ binary_labels[c1] = 1
          /\ labels_unified[c2] > 0 /\ binary_labels[c2] = 0

(* C5: 'percent area accept' and 'percent area reject' are the shares of   *)
(* the labeled area held by the labels the area filter kept and by the     *)
(* labels it discarded.                                                    *)
C5_MetadataMatchesFilter ==
    pc = "done" =>
        LET retained == {l \in DOMAIN area :
                           \E c \in DOMAIN labels_unified :
                               labels_unified[c] = l /\ binary_labels[c] = 1}
            total == SetSum(area, DOMAIN area)
        IN  /\ attrs.percent_area_accept = <<SetSum(area, retained), total>>
            /\ attrs.percent_area_reject = <<SetSum(area, DOMAIN area \ retained), total>>

(* C6 as stated: track() always applies the periodic unifier to the 3-D    *)
(* labels, and the blob of the wrap scenario gets one ID.                  *)
C6_AlwaysUnified ==
    pc = "done" =>
        /\ labels_wrapped = wrap(labels, shape).vol
        /\ SeamBlob => Cardinality(Ids(new_labels)) = 1

(* C6 as amended: track() applies the periodic unifier to the 3-D labels   *)
(* when the x coordinate spans the full circle less one grid step, and     *)
(* the blob of the wrap scenario then gets one ID; on any other grid the   *)
(* 3-D labels are returned as they are, and that blob gets two IDs.        *)
C6_UnifiedOnGlobalGrid ==
    pc = "done" =>
        LET nx == shape[3]
            global == xcoord[nx] - xcoord[1] + Abs(xcoord[2] - xcoord[1]) >= FullCircle
        IN  /\ global /\ SeamBlob => Cardinality(Ids(new_labels)) = 1
            /\ ~global /\ SeamBlob => Cardinality(Ids(new_labels)) = 2
            /\ ~global =>
                  /\ \A c \in DOMAIN labels :
                        new_labels[c] = IF labels[c] = 0 THEN NaN ELSE labels[c]
                  /\ attrs.final_objects = SetMax(Values(labels))

C6_Witness ==
    /\ pc = "done"
    /\ SeamBlob
    /\ xcoord[shape[3]] - xcoord[1] + Abs(xcoord[2] - xcoord[1]) >= FullCircle
    /\ labels[<<1, 1, 1>>] # labels[<<1, 1, SeamWidth>>]
    /\ Cardinality(Ids(new_labels)) = 1

(* C7: when the presence volume after morphology and masking has no        *)
(* 1-cell, the next step of track() is the empty-detection error, and no   *)
(* array is returned.                                                      *)
C7_EmptyDetectionFails ==
    [][pc = "masked" /\ Present(binary_images_with_mask) = {}
          => /\ pc' = "failed"
             /\ error' = "No objects were detected"
             /\ new_labels' = None]_vars

C7_Witness ==
    /\ pc = "failed"
    /\ error = "No objects were detected"
    /\ Present(binary_images_with_mask) = {}
    /\ \E c \in DOMAIN da : da[c] > 0

(* C8: after construction self.da has the axes in the order (timedim,      *)
(* ydim, xdim); a field with another set of axes is refused.               *)
C8_FieldReordered ==
    /\ pc = "constructed" => self_da_dims = <<timedim, ydim, xdim>>
    /\ pc # "new" /\ Range(self_da_dims) # {timedim, ydim, xdim}
          => pc = "failed" /\ error = "Ocetrac currently only supports 3D DataArrays"

(* C9: the dense remap of _wrap keeps 0 at 0 and sends every positive      *)
(* value to its rank among the positive values, and N is the number of     *)
(* distinct positive values after merging.                                 *)
C9_DenseRemap ==
    pc = "wrap_done" =>
        LET merged == wrap_frames(labels, shape)
            pos == {v \in Values(merged) : v > 0}
        IN  /\ \A c \in DOMAIN merged :
                  /\ labels_wrapped[c] = 0 <=> merged[c] = 0
                  /\ merged[c] > 0
                        => labels_wrapped[c] = Cardinality({v \in pos : v <= merged[c]})
            /\ N_final = Cardinality(pos)

(* C10 as stated: after the offsets, and still after the first            *)
(* unification and dense relabel, no positive label occurs in two frames   *)
(* and distinct components of a frame have distinct IDs.                   *)
C10_FrameUniqueKept ==
    FilterAreaRan =>
        /\ FrameUnique(labels_frame)
        /\ ComponentsDistinct(labels_frame, binary_images_with_mask, shape)
        /\ FrameUnique(labels_unified)
        /\ ComponentsDistinct(labels_unified, binary_images_with_mask, shape)

(* C10 as amended: after the offsets no positive label occurs in two       *)
(* frames and distinct components of a frame have distinct IDs; after the  *)
(* first unification and dense relabel no positive label occurs in two     *)
(* frames, and two components of a frame share an ID only when they are    *)
(* joined across the periodic seam.                                        *)
C10_FrameUnique ==
    FilterAreaRan =>
        /\ FrameUnique(labels_frame)
        /\ ComponentsDistinct(labels_frame, binary_images_with_mask, shape)
        /\ FrameUnique(labels_unified)
        /\ SeamComponentsDistinct(labels_unified, binary_images_with_mask, shape)

C10_Witness ==
    /\ pc = "filtered"
    /\ shape[1] = 3
    /\ Present(binary_images_with_mask) \cap FrameCells(shape, 1) # {}
    /\ Present(binary_images_with_mask) \cap FrameCells(shape, 2) = {}
    /\ Cardinality(Values(labels_frame) \ {0}) >= 2

====
